---------------------------- MODULE Spec2Model ----------------------------
(***************************************************************************)
(* A model of pxmonitor/tshark_libs/capture_to_csv.py: the ingestion loop  *)
(* of start_capture, parse_packet, the bounded packet buffer, the metrics  *)
(* computation, the application classifier, cleanup and the SIGINT         *)
(* handler.                                                                *)
(*                                                                         *)
(* Numbers.  A Python float that holds seconds (frame.time_epoch,          *)
(* frame.time_delta, tcp.analysis.ack_rtt, dns.time, time.time()) is       *)
(* carried as an integer number of milliseconds, so that "x * 1000" of the *)
(* source is the carried integer itself.  Derived quantities are exact     *)
(* rationals <<numerator, denominator>>; the square root of the jitter is  *)
(* cut off at 1/100 ms.  A Python int is an integer; the largest int that  *)
(* converts to a float is FloatMaxInt.                                     *)
(*                                                                         *)
(* A line of the capture's output is carried already stripped and split at *)
(* the commas: a sequence of field texts.                                  *)
(***************************************************************************)
EXTENDS Integers, Sequences, FiniteSets, TLC

\* ------------------------------------------------------------------------
\* Configuration

\* TSHARK_CONFIG["fields"]: the header line tshark prints with -E header=y
Fields ==
    << "frame.time_epoch", "ip.src", "ip.dst", "_ws.col.protocol", "frame.len",
       "tcp.srcport", "tcp.dstport", "ip.ttl", "tcp.flags",
       "tcp.window_size_value", "tcp.analysis.ack_rtt",
       "tcp.analysis.retransmission", "frame.time_delta", "dns.time" >>

FieldNames == { Fields[i] : i \in 1..Len(Fields) }

FloatFields ==
    { "frame.time_epoch", "frame.time_delta", "tcp.analysis.ack_rtt", "dns.time" }

IntFields ==
    { "frame.len", "tcp.srcport", "tcp.dstport", "ip.ttl", "tcp.window_size_value" }

\* PORT_MAP, as a set of <<port, name>> pairs
PortPairs ==
    { <<20, "FTP-DATA">>, <<21, "FTP">>, <<22, "SSH">>, <<23, "Telnet">>,
      <<25, "SMTP">>, <<53, "DNS">>, <<67, "DHCP">>, <<68, "DHCP">>,
      <<69, "TFTP">>, <<80, "HTTP">>, <<110, "POP3">>, <<123, "NTP">>,
      <<137, "NetBIOS-NS">>, <<138, "NetBIOS-DGM">>, <<139, "NetBIOS-SSN">>,
      <<143, "IMAP">>, <<161, "SNMP">>, <<162, "SNMP-TRAP">>, <<179, "BGP">>,
      <<389, "LDAP">>, <<443, "HTTPS">>, <<465, "SMTPS">>, <<514, "Syslog">>,
      <<587, "SMTP-Submission">>, <<636, "LDAPS">>, <<993, "IMAPS">>,
      <<995, "POP3S">>, <<1080, "SOCKS">>, <<1194, "OpenVPN">>,
      <<1433, "MSSQL">>, <<1521, "Oracle DB">>, <<1723, "PPTP">>,
      <<1812, "RADIUS">>, <<2049, "NFS">>, <<2082, "cPanel">>,
      <<2083, "cPanel-SSL">>, <<3306, "MySQL">>, <<3389, "RDP">>,
      <<3690, "Subversion">>, <<4444, "Metasploit">>, <<5000, "UPnP">>,
      <<5432, "PostgreSQL">>, <<5631, "PCAnywhere">>, <<5900, "VNC">>,
      <<6379, "Redis">>, <<8080, "HTTP-Alt">>, <<8443, "HTTPS-Alt">>,
      <<8888, "Alternate HTTP">>, <<9001, "Tor ORPort">>,
      <<9200, "Elasticsearch">>, <<10000, "Webmin">>, <<27017, "MongoDB">>,
      <<50000, "SAP">>, <<64738, "Mumble">> }

PortKeys == { pr[1] : pr \in PortPairs }

PORT_MAP == [ k \in PortKeys |-> (CHOOSE pr \in PortPairs : pr[1] = k)[2] ]

\* METRICS_INTERVAL, in seconds
METRICS_INTERVAL == 5

\* packet_buffer = deque(maxlen=1000); the model's deque holds MAXLEN packets
MAXLEN == 2

\* ------------------------------------------------------------------------
\* Bounds of the model

\* the clock runs from 0 to MaxTime seconds
MaxTime == 11

\* at most MaxRows data rows are read
MaxRows == 3

\* the largest magnitude of an int that converts to a float (2^1024 in
\* CPython); every int of a well-formed row of the model is far below it
FloatMaxInt == 1000000

\* ------------------------------------------------------------------------
\* float(value), int(value)

\* an integer with more than 308 digits
HugeDigits == "99999999999999999999999999999999999999999999999999999999999999999999999999999999999999999999999999999999999999999999999999999999999999999999999999999999999999999999999999999999999999999999999999999999999999999999999999999999999999999999999999999999999999999999999999999999999999999999999999999999999999999999999999999999"

HugeInt == FloatMaxInt + 1

\* the decimal literals of the model's rows and what float() makes of them,
\* in milliseconds
FloatLiteral ==
    [ t \in { "0.001", "0.010", "0.030", "0.050", "0.200", "1.000", "2.500" } |->
        CASE t = "0.001" -> 1
          [] t = "0.010" -> 10
          [] t = "0.030" -> 30
          [] t = "0.050" -> 50
          [] t = "0.200" -> 200
          [] t = "1.000" -> 1000
          [] t = "2.500" -> 2500 ]

\* the integer literals of the model's rows and what int() makes of them
IntLiteral ==
    [ t \in { "0", "22", "53", "64", "100", "128", "443", "1024", "1025", "1500",
              "5000", "9000", "49150", "49151", "51000", "-100", HugeDigits } |->
        CASE t = "0" -> 0
          [] t = "22" -> 22
          [] t = "53" -> 53
          [] t = "64" -> 64
          [] t = "100" -> 100
          [] t = "128" -> 128
          [] t = "443" -> 443
          [] t = "1024" -> 1024
          [] t = "1025" -> 1025
          [] t = "1500" -> 1500
          [] t = "5000" -> 5000
          [] t = "9000" -> 9000
          [] t = "49150" -> 49150
          [] t = "49151" -> 49151
          [] t = "51000" -> 51000
          [] t = "-100" -> 0 - 100
          [] t = HugeDigits -> HugeInt ]

\* Whether float(value) / int(value) raises ValueError: any other text does
\* ("abc", "0x10", "1.5" for int)
FloatRaises(value) == value # "" /\ value \notin DOMAIN FloatLiteral

IntRaises(value) == value # "" /\ value \notin DOMAIN IntLiteral

\* ------------------------------------------------------------------------
\* parse_packet

\* the fields[i] if i < len(fields) else ""
RawValue(fields, i) == IF i <= Len(fields) THEN fields[i] ELSE ""

\* the conversion of one field
ConvertField(field_name, value) ==
    IF field_name \in FloatFields
    THEN (IF value = "" THEN 0 ELSE FloatLiteral[value])
    ELSE IF field_name \in IntFields
    THEN (IF value = "" THEN 0 ELSE IntLiteral[value])
    ELSE IF field_name = "tcp.analysis.retransmission"
    THEN (value = "1")
    ELSE value

ConversionRaises(field_name, value) ==
    \/ field_name \in FloatFields /\ FloatRaises(value)
    \/ field_name \in IntFields /\ IntRaises(value)

\* DefaultPacket with a frame.len of 0
DefaultPacket_ZeroLength(t) ==
    [ f \in FieldNames |->
        CASE f = "frame.time_epoch" -> t * 1000
          [] f = "ip.src" -> "unknown"
          [] f = "ip.dst" -> "unknown"
          [] f = "_ws.col.protocol" -> "Unknown"
          [] f = "tcp.flags" -> ""
          [] f = "ip.ttl" -> 64
          [] f = "tcp.analysis.retransmission" -> FALSE
          [] OTHER -> 0 ]

\* the minimal packet of the except branch; time.time() is t seconds
DefaultPacket(t) ==
    [ f \in FieldNames |->
        CASE f = "frame.time_epoch" -> t * 1000
          [] f = "ip.src" -> "unknown"
          [] f = "ip.dst" -> "unknown"
          [] f = "_ws.col.protocol" -> "Unknown"
          [] f = "frame.len" -> 64
          [] f = "tcp.srcport" -> 0
          [] f = "tcp.dstport" -> 0
          [] f = "ip.ttl" -> 64
          [] f = "tcp.flags" -> ""
          [] f = "tcp.window_size_value" -> 0
          [] f = "tcp.analysis.ack_rtt" -> 0
          [] f = "tcp.analysis.retransmission" -> FALSE
          [] f = "frame.time_delta" -> 0
          [] f = "dns.time" -> 0 ]

ParseFails(fields, header) ==
    \E i \in 1..Len(header) : ConversionRaises(header[i], RawValue(fields, i))

parse_packet(fields, header, t) ==
    IF ParseFails(fields, header)
    THEN DefaultPacket(t)
    ELSE [ f \in { header[i] : i \in 1..Len(header) } |->
             LET i == CHOOSE j \in 1..Len(header) : header[j] = f
             IN  ConvertField(f, RawValue(fields, i)) ]

\* ------------------------------------------------------------------------
\* deque(maxlen=MAXLEN).append

\* a deque that never evicts
Append_deque_NoEviction(buf, packet) == Append(buf, packet)

Append_deque(buf, packet) ==
    IF Len(buf) >= MAXLEN
    THEN Append(SubSeq(buf, Len(buf) - MAXLEN + 2, Len(buf)), packet)
    ELSE Append(buf, packet)

\* ------------------------------------------------------------------------
\* identify_top_applications: the label of one packet

\* AppName with the range 1024..49151 taken inclusive
AppName_InclusiveRange(packet) ==
    LET src_port == packet["tcp.srcport"]
        dst_port == packet["tcp.dstport"]
        protocol == packet["_ws.col.protocol"]
    IN  IF src_port \in DOMAIN PORT_MAP THEN PORT_MAP[src_port]
        ELSE IF dst_port \in DOMAIN PORT_MAP THEN PORT_MAP[dst_port]
        ELSE IF dst_port >= 1024 /\ dst_port <= 49151
             THEN "App-Port-" \o ToString(dst_port)
        ELSE IF protocol # "" /\ protocol # "Unknown" THEN protocol
        ELSE "Unknown"

AppName(packet) ==
    LET src_port == packet["tcp.srcport"]
        dst_port == packet["tcp.dstport"]
        protocol == packet["_ws.col.protocol"]
    IN  IF src_port \in DOMAIN PORT_MAP THEN PORT_MAP[src_port]
        ELSE IF dst_port \in DOMAIN PORT_MAP THEN PORT_MAP[dst_port]
        ELSE IF dst_port > 1024 /\ dst_port < 49151
             THEN "App-Port-" \o ToString(dst_port)
        ELSE IF protocol # "" /\ protocol # "Unknown" THEN protocol
        ELSE "Unknown"

\* ------------------------------------------------------------------------
\* Exact arithmetic: a rational is <<n, d>> with d > 0, in lowest terms

Abs(x) == IF x < 0 THEN 0 - x ELSE x

RECURSIVE GCD(_, _)
GCD(a, b) == IF b = 0 THEN a ELSE GCD(b, a % b)

Rat(n, d) ==
    LET g == GCD(Abs(n), d)
    IN  IF n = 0 THEN <<0, 1>> ELSE << n \div g, d \div g >>

RInt(k) == <<k, 1>>

RAdd(x, y) ==
    LET g == GCD(x[2], y[2])
        l == (x[2] \div g) * y[2]
    IN  Rat(x[1] * (l \div x[2]) + y[1] * (l \div y[2]), l)

RNeg(x) == << 0 - x[1], x[2] >>

RSub(x, y) == RAdd(x, RNeg(y))

RMul(x, y) ==
    LET a == Rat(x[1], y[2])
        b == Rat(y[1], x[2])
    IN  << a[1] * b[1], a[2] * b[2] >>

RLt(x, y) == RSub(x, y)[1] < 0

RMax(x, y) == IF RLt(x, y) THEN y ELSE x

RMin(x, y) == IF RLt(y, x) THEN y ELSE x

\* round(x): to the nearest integer, a tie to the even one
RRound(x) ==
    LET fl == x[1] \div x[2]
        twice == 2 * (x[1] - fl * x[2])
    IN  IF twice < x[2] THEN fl
        ELSE IF twice > x[2] THEN fl + 1
        ELSE IF fl % 2 = 0 THEN fl ELSE fl + 1

\* round(x, 2)
RRound2(x) == Rat(RRound(RMul(x, RInt(100))), 100)

\* the integer part of the square root of v
RECURSIVE ISqrtIn(_, _, _)
ISqrtIn(lo, hi, v) ==
    IF lo >= hi THEN lo
    ELSE LET mid == (lo + hi + 1) \div 2
         IN  IF mid * mid <= v THEN ISqrtIn(mid, hi, v) ELSE ISqrtIn(lo, mid - 1, v)

ISqrt(v) == ISqrtIn(0, 40000, v)

RECURSIVE SumSeq(_)
SumSeq(values) ==
    IF values = <<>> THEN 0 ELSE values[1] + SumSeq(Tail(values))

\* [p.get(field, 0) for p in packets]
FieldValues(packets, field) == [ i \in 1..Len(packets) |-> packets[i][field] ]

\* [v for v in values if v > 0]
Positive(values) == SelectSeq(values, LAMBDA v : v > 0)

\* ------------------------------------------------------------------------
\* calculate_average, on a list of integers

calculate_average(values) ==
    IF values = <<>> THEN RInt(0) ELSE Rat(SumSeq(values), Len(values))

\* calculate_std_dev, on a list of integers: statistics.stdev, the sample
\* standard deviation, carried to 1/100
calculate_std_dev(values) ==
    IF Len(values) <= 1 THEN RInt(0)
    ELSE LET n == Len(values)
             s == SumSeq(values)
             sq == SumSeq([ i \in 1..n |-> values[i] * values[i] ])
             \* variance = (n * sq - s * s) / (n * (n - 1))
             num == n * sq - s * s
             den == n * (n - 1)
         IN  Rat(ISqrt((num * 10000) \div den), 100)

\* ------------------------------------------------------------------------
\* identify_top_applications

\* the labels in the order of their first packet (the dict's insertion order)
RECURSIVE FirstSeen(_, _)
FirstSeen(packets, seen) ==
    IF packets = <<>> THEN seen
    ELSE LET a == AppName(Head(packets))
         IN  FirstSeen(Tail(packets),
                       IF \E i \in 1..Len(seen) : seen[i] = a
                       THEN seen ELSE Append(seen, a))

\* applications[app_name]: the bytes of the label
AppBytes(packets, app) ==
    SumSeq(FieldValues(SelectSeq(packets, LAMBDA p : AppName(p) = app), "frame.len"))

\* sorted(app_list, key=frame.len, reverse=True)[:top_n]: a stable sort
identify_top_applications(packets, top_n) ==
    LET labels == FirstSeen(packets, <<>>)
        n == Len(labels)
        Before(i, j) ==
            \/ AppBytes(packets, labels[i]) > AppBytes(packets, labels[j])
            \/ AppBytes(packets, labels[i]) = AppBytes(packets, labels[j]) /\ i < j
        Rank(i) == 1 + Cardinality({ j \in 1..n : Before(j, i) })
        sorted == [ r \in 1..n |-> labels[CHOOSE i \in 1..n : Rank(i) = r] ]
    IN  IF n <= top_n THEN sorted ELSE SubSeq(sorted, 1, top_n)

\* ------------------------------------------------------------------------
\* calculate_network_metrics

MaxOf(values) == CHOOSE v \in { values[i] : i \in 1..Len(values) } :
                    \A i \in 1..Len(values) : values[i] <= v

MinOf(values) == CHOOSE v \in { values[i] : i \in 1..Len(values) } :
                    \A i \in 1..Len(values) : v <= values[i]

\* max(timestamps) - min(timestamps), in milliseconds
TimeSpan(packets) ==
    LET timestamps == FieldValues(packets, "frame.time_epoch")
    IN  MaxOf(timestamps) - MinOf(timestamps)

\* sum(p.get('frame.len', 0) for p in packets)
TotalBytes(packets) == SumSeq(FieldValues(packets, "frame.len"))

\* (total_bytes * 8) / (time_span * 1000000) converts the int total_bytes * 8
\* to a float, which raises OverflowError beyond the float range
BandwidthRaises(packets) ==
    TimeSpan(packets) > 0 /\ Abs(TotalBytes(packets) * 8) > FloatMaxInt

\* bandwidth in Mbps; time_span seconds is TimeSpan / 1000
Bandwidth(packets) ==
    IF TimeSpan(packets) > 0
    THEN Rat(TotalBytes(packets) * 8, TimeSpan(packets) * 1000)
    ELSE RInt(0)

\* sum(1 for p in packets if p.get('tcp.analysis.retransmission', False))
Retransmissions(packets) ==
    Len(SelectSeq(packets, LAMBDA p : p["tcp.analysis.retransmission"]))

\* PacketLoss over the packets that are no stand-in
PacketLoss_SkipStandIns(packets) ==
    LET parsed == SelectSeq(packets, LAMBDA p : p["_ws.col.protocol"] # "Unknown")
    IN  IF parsed = <<>> THEN RInt(0)
        ELSE Rat(Retransmissions(packets) * 100, Len(parsed))

\* (retransmissions / len(packets)) * 100
PacketLoss(packets) == Rat(Retransmissions(packets) * 100, Len(packets))

\* window_values: sum(values) / len(values) on ints raises OverflowError when
\* the quotient is beyond the float range
WindowValues(packets) == Positive(FieldValues(packets, "tcp.window_size_value"))

WindowRaises(packets) ==
    /\ WindowValues(packets) # <<>>
    /\ Abs(SumSeq(WindowValues(packets))) \div Len(WindowValues(packets)) > FloatMaxInt

\* max(1, min(100, health_score))
ClampHealth(health_score) ==
    IF health_score > 100 THEN 100 ELSE IF health_score < 1 THEN 1 ELSE health_score

\* round(latency_score + jitter_score + packet_loss_score + bandwidth_score
\*       + dns_score)
HealthSum(latency, jitter, packet_loss, bandwidth, dns_delay) ==
    LET latency_score ==
            RMul(RMax(RInt(0), RSub(RInt(100), RMul(latency, <<1, 2>>))), <<3, 10>>)
        jitter_score ==
            RMul(RMax(RInt(0), RSub(RInt(100), RMul(jitter, RInt(2)))), <<1, 5>>)
        packet_loss_score ==
            RMul(RMax(RInt(0), RSub(RInt(100), RMul(packet_loss, RInt(10)))), <<1, 4>>)
        bandwidth_score ==
            RMul(RMin(RInt(100), RMul(bandwidth, RInt(10))), <<3, 20>>)
        dns_score ==
            RMul(RMax(RInt(0), RSub(RInt(100), RMul(dns_delay, RInt(2)))), <<1, 10>>)
    IN  RRound(RAdd(latency_score,
               RAdd(jitter_score,
               RAdd(packet_loss_score,
               RAdd(bandwidth_score, dns_score)))))

\* ProtocolCounts that sets 1 instead of adding 1
ProtocolCounts_Presence(packets) ==
    [ proto \in { packets[i]["_ws.col.protocol"] : i \in 1..Len(packets) } |-> 1 ]

\* protocol_counts: protocol label -> number of packets
ProtocolCounts(packets) ==
    [ proto \in { packets[i]["_ws.col.protocol"] : i \in 1..Len(packets) } |->
        Cardinality({ i \in 1..Len(packets) : packets[i]["_ws.col.protocol"] = proto }) ]

\* top_apps[:3]
FirstThree(apps) == IF Len(apps) <= 3 THEN apps ELSE SubSeq(apps, 1, 3)

\* The metrics dict of a non-empty snapshot; time.time() is t seconds
Metrics(packets, t) ==
    LET rtt_values == Positive(FieldValues(packets, "tcp.analysis.ack_rtt"))
        latency == calculate_average(rtt_values)
        delta_values == Positive(FieldValues(packets, "frame.time_delta"))
        jitter == calculate_std_dev(delta_values)
        bandwidth == Bandwidth(packets)
        packet_loss == PacketLoss(packets)
        dns_packets == SelectSeq(packets, LAMBDA p : p["_ws.col.protocol"] = "DNS")
        dns_delay == calculate_average(Positive(FieldValues(dns_packets, "dns.time")))
        avg_window == calculate_average(WindowValues(packets))
        congestion_level ==
            IF RLt(RInt(8000), avg_window) /\ RLt(RInt(5), bandwidth) THEN "Low"
            ELSE IF RLt(RInt(4000), avg_window) \/ RLt(RInt(2), bandwidth) THEN "Moderate"
            ELSE "High"
        stability ==
            IF RLt(jitter, RInt(10)) /\ RLt(packet_loss, RInt(1)) THEN "Stable"
            ELSE IF RLt(jitter, RInt(30)) /\ RLt(packet_loss, RInt(5)) THEN "Unstable"
            ELSE "Very Unstable"
    IN  [ timestamp |-> t * 1000,
          latency |-> RRound2(latency),
          jitter |-> RRound2(jitter),
          bandwidth |-> RRound2(bandwidth),
          packet_loss |-> RRound2(packet_loss),
          dns_delay |-> RRound2(dns_delay),
          health_score |->
              ClampHealth(HealthSum(latency, jitter, packet_loss, bandwidth, dns_delay)),
          stability |-> stability,
          congestion_level |-> congestion_level,
          packet_count |-> Len(packets),
          protocol_counts |-> ProtocolCounts(packets),
          top_applications |-> FirstThree(identify_top_applications(packets, 5)) ]

\* What a call ends in: None for an empty snapshot, an OverflowError, or the
\* metrics dict
calculate_network_metrics(packets, t) ==
    IF packets = <<>> THEN [ kind |-> "None" ]
    ELSE IF BandwidthRaises(packets) \/ WindowRaises(packets)
    THEN [ kind |-> "raise", exc |-> "OverflowError" ]
    ELSE [ kind |-> "record", dict |-> Metrics(packets, t) ]

\* ------------------------------------------------------------------------
\* The program's state

VARIABLES
    pc,                 \* where the main thread is: "start", "loop" (the while
                        \* loop of start_capture), "exited" (the loop left,
                        \* the finally block and the exit hook run)
    now,                \* time.time(), in seconds
    header,             \* the header of start_capture; <<>> is None
    packet_buffer,      \* the deque
    packet_count,
    last_metrics_time,
    tshark_process,     \* "None", or the child's state: "running", "exited"
    stdout_open,        \* the child holds the write end of its stdout pipe
    pipe_data,          \* lines are left in the pipe after the write end closed
    signals,            \* what cleanup sent the child: "terminate", "kill"
    csv_file,           \* "None", "open", "closed"
    sink,               \* the data rows written to the file, in order
    unflushed,          \* a row is written but not flushed
    interrupted,        \* SIGINT was delivered
    cleanups,           \* the calls of cleanup so far
    failure,            \* the error that ended the loop, "" if none
    arrivals,           \* history: every packet appended, in order
    last_fields,        \* history: the row read last
    ticks,              \* history: per row of the sink, current_time and
                        \* packet_count when it was written
    capture_start,      \* history: time.time() when the loop was entered
    snapshot,           \* the argument of a call of calculate_network_metrics
    result,             \* and what the call ended in
    probe,              \* a packet given to the application classifier
    app_name            \* and its label

vars == << pc, now, header, packet_buffer, packet_count, last_metrics_time,
           tshark_process, stdout_open, pipe_data, signals, csv_file, sink,
           unflushed, interrupted, cleanups, failure, arrivals, last_fields, ticks,
           capture_start, snapshot, result, probe, app_name >>

\* what the ingestion loop leaves alone
pure == << snapshot, result, probe, app_name >>

\* ------------------------------------------------------------------------
\* The rows the capture source prints

RowTCP ==
    << "1.000", "10.0.0.1", "10.0.0.2", "TCP", "1500", "443", "51000", "64",
       "0x0010", "9000", "0.050", "", "0.010", "" >>

\* frame.len is no number
RowMalformed ==
    << "2.500", "10.0.0.1", "10.0.0.2", "TCP", "abc", "443", "51000", "64",
       "0x0010", "9000", "0.050", "1", "0.010", "" >>

\* five fields only, and a frame.len of more digits than a float holds
RowShort == << "2.500", "10.0.0.1", "10.0.0.2", "TCP", HugeDigits >>

Rows == { RowTCP, RowMalformed, RowShort }

\* ------------------------------------------------------------------------
\* cleanup

\* TerminateChild without the kill()
TerminateChild_NoKill(proc, sent, stubborn) ==
    IF proc = "None" THEN [ proc |-> proc, sent |-> sent ]
    ELSE IF proc = "exited" THEN [ proc |-> proc, sent |-> sent ]
    ELSE IF stubborn
         THEN [ proc |-> "running", sent |-> sent \cup { "terminate" } ]
         ELSE [ proc |-> "exited", sent |-> sent \cup { "terminate" } ]

\* tshark_process.terminate(); time.sleep(0.5); kill() if poll() is None.
\* stubborn: the child is still running half a second after terminate()
TerminateChild(proc, sent, stubborn) ==
    IF proc = "None" THEN [ proc |-> proc, sent |-> sent ]
    ELSE IF proc = "exited" THEN [ proc |-> proc, sent |-> sent ]
    ELSE IF stubborn
         THEN [ proc |-> "exited", sent |-> sent \cup { "terminate", "kill" } ]
         ELSE [ proc |-> "exited", sent |-> sent \cup { "terminate" } ]

\* csv_file.flush(); csv_file.close(): a closed file raises ValueError at
\* flush(), which the except clause reports
CloseFile(file) == IF file = "open" THEN "closed" ELSE file

\* cleanup(), on the record of what it touches
cleanup(st, stubborn) ==
    LET child == TerminateChild(st.proc, st.sent, stubborn)
    IN  [ proc |-> child.proc,
          sent |-> child.sent,
          file |-> CloseFile(st.file),
          unflushed |-> IF st.file = "open" THEN FALSE ELSE st.unflushed,
          calls |-> st.calls + 1 ]

Resources ==
    [ proc |-> tshark_process, sent |-> signals, file |-> csv_file,
      unflushed |-> unflushed, calls |-> cleanups ]

\* the state after cleanup ran on st
Cleaned(st) ==
    /\ tshark_process' = st.proc
    /\ signals' = st.sent
    /\ csv_file' = st.file
    /\ unflushed' = st.unflushed
    /\ cleanups' = st.calls
    /\ stdout_open' = (IF st.proc = "exited" /\ tshark_process = "running"
                       THEN FALSE ELSE stdout_open)

\* ------------------------------------------------------------------------
\* Init: the module's globals, before main(); the clock reads 1

Globals ==
    /\ pc = "start"
    /\ now = 1
    /\ header = <<>>
    /\ packet_buffer = <<>>
    /\ packet_count = 0
    /\ last_metrics_time = 0
    /\ tshark_process = "None"
    /\ stdout_open = FALSE
    /\ pipe_data = FALSE
    /\ signals = {}
    /\ csv_file = "None"
    /\ sink = <<>>
    /\ unflushed = FALSE
    /\ interrupted = FALSE
    /\ cleanups = 0
    /\ failure = ""
    /\ arrivals = <<>>
    /\ last_fields = <<>>
    /\ ticks = <<>>
    /\ capture_start = 0
    /\ result = [ kind |-> "pending" ]
    /\ app_name = ""

Init ==
    /\ Globals
    /\ snapshot = <<>>
    /\ probe = DefaultPacket(0)

\* the clock advances
Tick ==
    /\ pc = "loop"
    /\ now < MaxTime
    /\ now' = now + 1
    /\ UNCHANGED << pc, header, packet_buffer, packet_count, last_metrics_time,
                    tshark_process, stdout_open, pipe_data, signals, csv_file, sink,
                    unflushed, interrupted, cleanups, failure, arrivals,
                    last_fields, ticks >>
    /\ UNCHANGED << capture_start, pure >>

\* start_capture up to the while loop: the handlers are registered, the file
\* is opened and its header row written, the child is started
StartCapture ==
    /\ pc = "start"
    /\ pc' = "loop"
    /\ csv_file' = "open"
    /\ tshark_process' = "running"
    /\ stdout_open' = TRUE
    /\ header' = <<>>
    /\ last_metrics_time' = now
    /\ capture_start' = now
    /\ UNCHANGED << now, packet_buffer, packet_count, pipe_data, signals, sink,
                    unflushed, interrupted, cleanups, failure, arrivals,
                    last_fields, ticks >>
    /\ UNCHANGED pure

\* readline() returns a line: the child writes one, or one is left in the pipe
CanReadLine == stdout_open \/ pipe_data

\* after a line is taken from a pipe whose write end is closed, more lines
\* are left or not
TakeLine ==
    IF stdout_open THEN pipe_data' = pipe_data ELSE pipe_data' \in BOOLEAN

\* the except clause and the finally block of start_capture: the loop is left
\* with error exc ("" for the break) and cleanup runs; start_capture and
\* main return, and the exit hook runs cleanup again
LeaveLoop(exc, st) ==
    /\ pc' = "exited"
    /\ failure' = exc
    /\ \E stubborn \in BOOLEAN : Cleaned(cleanup(cleanup(st, stubborn), stubborn))

\* ------------------------------------------------------------------------
\* One iteration of the while loop of start_capture, by what readline() gives

\* the first non-blank line is the header
ReadHeader ==
    /\ pc = "loop"
    /\ CanReadLine
    /\ header = <<>>
    /\ header' = Fields
    /\ TakeLine
    /\ UNCHANGED << pc, now, packet_buffer, packet_count, last_metrics_time,
                    tshark_process, stdout_open, signals, csv_file, sink, unflushed,
                    interrupted, cleanups, failure, arrivals, last_fields, ticks >>
    /\ UNCHANGED << capture_start, pure >>

\* a line that strips to nothing: continue
ReadBlank ==
    /\ pc = "loop"
    /\ CanReadLine
    /\ TakeLine
    /\ UNCHANGED << pc, now, header, packet_buffer, packet_count, last_metrics_time,
                    tshark_process, stdout_open, signals, csv_file, sink, unflushed,
                    interrupted, cleanups, failure, arrivals, last_fields, ticks >>
    /\ UNCHANGED << capture_start, pure >>

\* MetricsDue without the interval
MetricsDue_NoInterval(current_time, last_time, buffer) == buffer # <<>>

\* current_time - last_metrics_time >= METRICS_INTERVAL and packet_buffer
MetricsDue(current_time, last_time, buffer) ==
    current_time - last_time >= METRICS_INTERVAL /\ buffer # <<>>

\* What writing the row ends in: the row is written and flushed; writerow
\* raises and nothing is written; flush raises with the row in the file
\* object's buffer
SinkOutcomes == { "ok", "writerow raises", "flush raises" }

\* a data row: parse, append, count, and the metrics when they are due
ReadRow(fields, outcome) ==
    /\ pc = "loop"
    /\ CanReadLine
    /\ header # <<>>
    /\ packet_count < MaxRows
    /\ TakeLine
    /\ LET packet == parse_packet(fields, header, now)
           buffer == Append_deque(packet_buffer, packet)
           current_time == now
           metrics == calculate_network_metrics(buffer, now)
           tick == [ current_time |-> current_time, packet_count |-> packet_count + 1 ]
       IN  /\ packet_buffer' = buffer
           /\ packet_count' = packet_count + 1
           /\ last_fields' = fields
           /\ IF ~ MetricsDue(current_time, last_metrics_time, buffer)
                 \/ metrics.kind = "None"
              THEN /\ outcome = "ok"
                   /\ UNCHANGED << pc, last_metrics_time, tshark_process, stdout_open,
                                   signals, csv_file, sink, unflushed, cleanups,
                                   failure, ticks >>
              ELSE IF metrics.kind = "raise"
              THEN /\ outcome = "ok"
                   /\ LeaveLoop(metrics.exc, Resources)
                   /\ UNCHANGED << last_metrics_time, sink, ticks >>
              ELSE IF outcome = "ok"
              THEN /\ sink' = Append(sink, metrics.dict)
                   /\ ticks' = Append(ticks, tick)
                   /\ last_metrics_time' = current_time
                   /\ UNCHANGED << pc, tshark_process, stdout_open, signals, csv_file,
                                   unflushed, cleanups, failure >>
              ELSE IF outcome = "writerow raises"
              THEN /\ LeaveLoop("OSError", Resources)
                   /\ UNCHANGED << last_metrics_time, sink, ticks >>
              ELSE /\ sink' = Append(sink, metrics.dict)
                   /\ ticks' = Append(ticks, tick)
                   /\ LeaveLoop("OSError", [ Resources EXCEPT !.unflushed = TRUE ])
                   /\ UNCHANGED last_metrics_time
    /\ UNCHANGED << now, header, interrupted, arrivals >>
    /\ UNCHANGED << capture_start, pure >>

\* ReadEOF that breaks without asking poll()
ReadEOF_NoPoll ==
    /\ pc = "loop"
    /\ ~ CanReadLine
    /\ LeaveLoop("", Resources)
    /\ UNCHANGED << now, header, packet_buffer, packet_count, last_metrics_time,
                    pipe_data, sink, interrupted, arrivals, last_fields, ticks >>
    /\ UNCHANGED << capture_start, pure >>

\* readline() returns '' (end of file): break when the child has exited,
\* continue when it has not
ReadEOF ==
    /\ pc = "loop"
    /\ ~ CanReadLine
    /\ IF tshark_process = "exited"
       THEN LeaveLoop("", Resources)
       ELSE UNCHANGED << pc, failure, tshark_process, signals, csv_file, unflushed,
                         cleanups, stdout_open >>
    /\ UNCHANGED << now, header, packet_buffer, packet_count, last_metrics_time,
                    pipe_data, sink, interrupted, arrivals, last_fields, ticks >>
    /\ UNCHANGED << capture_start, pure >>

\* readline() raises: the stream cannot be read or decoded
ReadError ==
    /\ pc = "loop"
    /\ CanReadLine
    /\ LeaveLoop("ReadError", Resources)
    /\ UNCHANGED << now, header, packet_buffer, packet_count, last_metrics_time,
                    pipe_data, sink, interrupted, arrivals, last_fields, ticks >>
    /\ UNCHANGED << capture_start, pure >>

\* ------------------------------------------------------------------------
\* The capture process

\* the child exits by itself; what it wrote and was not read stays in the pipe
ChildExits ==
    /\ pc = "loop"
    /\ tshark_process = "running"
    /\ tshark_process' = "exited"
    /\ stdout_open' = FALSE
    /\ pipe_data' \in (IF stdout_open THEN BOOLEAN ELSE { pipe_data })
    /\ UNCHANGED << pc, now, header, packet_buffer, packet_count, last_metrics_time,
                    signals, csv_file, sink, unflushed, interrupted, cleanups,
                    failure, arrivals, last_fields, ticks >>
    /\ UNCHANGED << capture_start, pure >>

\* the child closes its stdout and keeps running
ChildClosesStdout ==
    /\ pc = "loop"
    /\ tshark_process = "running"
    /\ stdout_open
    /\ stdout_open' = FALSE
    /\ pipe_data' \in BOOLEAN
    /\ UNCHANGED << pc, now, header, packet_buffer, packet_count, last_metrics_time,
                    tshark_process, signals, csv_file, sink, unflushed, interrupted,
                    cleanups, failure, arrivals, last_fields, ticks >>
    /\ UNCHANGED << capture_start, pure >>

\* ------------------------------------------------------------------------
\* SIGINT and the exit hook

\* signal_handler: cleanup(), then sys.exit(0).  SystemExit is no Exception:
\* it passes the except clause, the finally block calls cleanup() again, and
\* so does the exit hook
signal_handler ==
    /\ pc = "loop"
    /\ interrupted' = TRUE
    /\ pc' = "exited"
    /\ \E stubborn \in BOOLEAN :
          Cleaned(cleanup(cleanup(cleanup(Resources, stubborn), stubborn), stubborn))
    /\ UNCHANGED << now, header, packet_buffer, packet_count, last_metrics_time,
                    pipe_data, sink, failure, arrivals, last_fields, ticks >>
    /\ UNCHANGED << capture_start, pure >>

Next ==
    \/ Tick
    \/ StartCapture
    \/ ReadHeader
    \/ ReadBlank
    \/ \E fields \in Rows, outcome \in SinkOutcomes : ReadRow(fields, outcome)
    \/ ReadEOF
    \/ ReadError
    \/ ChildExits
    \/ ChildClosesStdout
    \/ signal_handler

Spec == Init /\ [][Next]_vars

\* readline() on a pipe whose writer has exited and that holds no more data
\* returns '' at once, so the loop does take the step that reads the end of
\* the file
FairSpec == Spec /\ WF_vars(ReadEOF)

\* ------------------------------------------------------------------------
\* The packet buffer alone: lines 360-363 of the loop, row after row

\* at most MaxAppends rows are appended
MaxAppends == 5

AppendRow(fields) ==
    /\ Len(arrivals) < MaxAppends
    /\ LET packet == parse_packet(fields, Fields, now)
       IN  /\ packet_buffer' = Append_deque(packet_buffer, packet)
           /\ arrivals' = Append(arrivals, packet)
    /\ packet_count' = packet_count + 1
    /\ last_fields' = fields
    /\ UNCHANGED << pc, now, header, last_metrics_time, tshark_process, stdout_open,
                    pipe_data, signals, csv_file, sink, unflushed, interrupted,
                    cleanups, failure, ticks, capture_start, pure >>

BufferNext == \E fields \in Rows : AppendRow(fields)

BufferSpec == Init /\ [][BufferNext]_vars

\* ------------------------------------------------------------------------
\* calculate_network_metrics alone, on snapshots of up to MaxSnapshot packets

MaxSnapshot == 3

RowDNS ==
    << "2.500", "10.0.0.4", "10.0.0.5", "DNS", "100", "53", "1025", "64", "",
       "5000", "0.200", "1", "0.030", "0.200" >>

RowUDP ==
    << "1.000", "10.0.0.4", "10.0.0.5", "UDP", "-100", "0", "49151", "64", "",
       "", "0.001", "1", "0.050", "" >>

MetricsPackets ==
    { parse_packet(fields, Fields, 3) :
        fields \in { RowTCP, RowMalformed, RowShort, RowDNS, RowUDP } }

\* 10 packets, 2 of them retransmissions
TwoOfTen ==
    [ i \in 1..10 |->
        IF i \in { 4, 9 } THEN parse_packet(RowDNS, Fields, 3)
        ELSE parse_packet(RowTCP, Fields, 3) ]

Snapshots ==
    UNION { [ 1..n -> MetricsPackets ] : n \in 0..MaxSnapshot } \cup { TwoOfTen }

MetricsInit ==
    /\ Globals
    /\ snapshot \in Snapshots
    /\ probe = DefaultPacket(0)

Compute ==
    /\ result.kind = "pending"
    /\ result' = calculate_network_metrics(snapshot, now)
    /\ UNCHANGED << pc, now, header, packet_buffer, packet_count, last_metrics_time,
                    tshark_process, stdout_open, pipe_data, signals, csv_file, sink,
                    unflushed, interrupted, cleanups, failure, arrivals, last_fields,
                    ticks, capture_start, snapshot, probe, app_name >>

MetricsNext == Compute

MetricsSpec == MetricsInit /\ [][MetricsNext]_vars

\* ------------------------------------------------------------------------
\* The application label alone

ProbePorts == { 0, 22, 443, 1023, 1024, 1025, 1080, 49150, 49151, 49152, 50000, 51000 }

ProbeProtocols == { "", "Unknown", "TCP", "QUIC" }

Probes ==
    { [ DefaultPacket(0) EXCEPT !["tcp.srcport"] = src, !["tcp.dstport"] = dst,
                                !["_ws.col.protocol"] = proto ] :
        src \in ProbePorts, dst \in ProbePorts, proto \in ProbeProtocols }

ClassifyInit ==
    /\ Globals
    /\ snapshot = <<>>
    /\ probe \in Probes

Classify ==
    /\ app_name = ""
    /\ app_name' = AppName(probe)
    /\ UNCHANGED << pc, now, header, packet_buffer, packet_count, last_metrics_time,
                    tshark_process, stdout_open, pipe_data, signals, csv_file, sink,
                    unflushed, interrupted, cleanups, failure, arrivals, last_fields,
                    ticks, capture_start, snapshot, result, probe >>

ClassifyNext == Classify

ClassifySpec == ClassifyInit /\ [][ClassifyNext]_vars

\* ------------------------------------------------------------------------
\* The claims

Min(a, b) == IF a < b THEN a ELSE b

Last(seq) == seq[Len(seq)]

RECURSIVE SumOver(_, _)
SumOver(f, S) ==
    IF S = {} THEN 0
    ELSE LET x == CHOOSE y \in S : TRUE
         IN  f[x] + SumOver(f, S \ { x })

\* C1: after n appends the buffer holds min(n, MAXLEN) packets, and they are
\* the most recent min(n, MAXLEN) arrivals in arrival order; the counter
\* counts every append.
C1_BufferHoldsMostRecent ==
    LET n == Len(arrivals)
        m == Min(n, MAXLEN)
    IN  /\ Len(packet_buffer) = m
        /\ \A i \in 1..m : packet_buffer[i] = arrivals[n - m + i]
        /\ packet_count = n

\* C1: MAXLEN + 2 packets were appended, the first of them unlike the ones
\* the buffer holds.
C1_Witness ==
    /\ Len(arrivals) = MAXLEN + 2
    /\ \A i \in 1..Len(packet_buffer) : packet_buffer[i] # arrivals[1]

\* C2: every row of the sink was written while a data row was processed,
\* at least METRICS_INTERVAL seconds after the last-computed timestamp (the
\* start of the capture for the first row, the time of the row before it
\* otherwise) and from a non-empty buffer; each row of the sink belongs to
\* a data row of its own; and while the loop runs the last-computed
\* timestamp is the time of the last row written.
C2_Gating ==
    /\ Len(ticks) = Len(sink)
    /\ Len(sink) <= packet_count
    /\ \A i \in 1..Len(ticks) :
          /\ ticks[i].current_time
                - (IF i = 1 THEN capture_start ELSE ticks[i - 1].current_time)
                >= METRICS_INTERVAL
          /\ sink[i].packet_count >= 1
          /\ ticks[i].packet_count >= 1
          /\ ticks[i].packet_count <= packet_count
          /\ i > 1 => ticks[i].packet_count > ticks[i - 1].packet_count
    /\ pc = "loop" =>
          last_metrics_time =
             (IF ticks = <<>> THEN capture_start ELSE Last(ticks).current_time)

\* C2: two rows were written and the loop runs on.
C2_Witness == Len(sink) = 2 /\ pc = "loop"

\* C3: a call on a non-empty snapshot ends in a record whose health_score
\* is in 1..100.
C3_HealthAlwaysInRange ==
    (snapshot # <<>> /\ result.kind # "pending") =>
        (result.kind = "record" /\ result.dict.health_score \in 1..100)

\* what a step that processed a data row did
C4_Step ==
    LET packet == Last(packet_buffer')
        kept == Len(packet_buffer') - 1
    IN  /\ packet_count' = packet_count + 1
        /\ Len(packet_buffer') = Min(Len(packet_buffer) + 1, MAXLEN)
        /\ \A i \in 1..kept :
              packet_buffer'[i] = packet_buffer[Len(packet_buffer) - kept + i]
        /\ DOMAIN packet = FieldNames
        /\ last_fields' = RowMalformed =>
              /\ packet["frame.time_epoch"] = now * 1000
              /\ packet["ip.src"] = "unknown"
              /\ packet["ip.dst"] = "unknown"
              /\ packet["_ws.col.protocol"] = "Unknown"
              /\ packet["frame.len"] = 64
              /\ packet["ip.ttl"] = 64
              /\ packet["tcp.srcport"] = 0
              /\ packet["tcp.dstport"] = 0
              /\ packet["tcp.flags"] = ""
              /\ packet["tcp.window_size_value"] = 0
              /\ packet["tcp.analysis.ack_rtt"] = 0
              /\ packet["frame.time_delta"] = 0
              /\ packet["dns.time"] = 0
              /\ packet["tcp.analysis.retransmission"] = FALSE
        /\ last_fields' = RowShort =>
              /\ packet["ip.src"] = "10.0.0.1"
              /\ packet["tcp.dstport"] = 0
              /\ packet["tcp.flags"] = ""
              /\ packet["dns.time"] = 0
              /\ packet["tcp.analysis.retransmission"] = FALSE
        /\ last_fields' = RowTCP =>
              /\ packet["frame.time_epoch"] = 1000
              /\ packet["frame.len"] = 1500
              /\ packet["tcp.srcport"] = 443
              /\ packet["tcp.analysis.ack_rtt"] = 50
        /\ pc' # "loop" => failure' \in { "OverflowError", "OSError" }

\* C4: with the 14-field header, every data row read (well-formed, too
\* short, malformed) ends in exactly one append of a packet that has all
\* 14 fields and in packet_count + 1; a malformed row is appended as the
\* stand-in packet; the buffer never gets shorter; and when the loop ends
\* in that step, it is the metrics or the sink that failed, not the parse.
C4_RowAlwaysAppended ==
    [][ (\E fields \in Rows, outcome \in SinkOutcomes : ReadRow(fields, outcome))
            => C4_Step ]_vars

\* C4: a malformed row was read after another row and stands in the buffer
\* as the stand-in packet, the loop running on.
C4_Witness ==
    /\ pc = "loop"
    /\ packet_count >= 2
    /\ last_fields = RowMalformed
    /\ Last(packet_buffer)["_ws.col.protocol"] = "Unknown"

\* C5: after an error of the metrics computation or of the sink's write or
\* flush the ingestion loop keeps running.
C5_TickFailureKeepsLoop ==
    failure \in { "OverflowError", "OSError" } => pc = "loop"

\* the sink is flushed and closed, the capture process is gone
ShutDown ==
    /\ pc = "exited"
    /\ csv_file = "closed"
    /\ ~ unflushed
    /\ tshark_process = "exited"
    /\ "kill" \in signals => "terminate" \in signals

\* a second call of cleanup changes nothing of what the first call left
CleanupIdempotent ==
    \A first \in BOOLEAN, second \in BOOLEAN :
        LET once == cleanup(Resources, first)
            twice == cleanup(once, second)
        IN  /\ twice.proc = once.proc
            /\ twice.sent = once.sent
            /\ twice.file = once.file
            /\ twice.unflushed = once.unflushed

SourceEnded == pc = "loop" /\ ~ CanReadLine /\ tshark_process = "exited"

\* C8: when the capture process has exited and its output is exhausted, the
\* loop can only read the end of the file, and that read ends the loop and
\* runs cleanup (sink closed, capture process released), as does a read
\* that raises; after the loop has ended nothing is appended or written;
\* and reading the end of the file while the process runs leaves the loop
\* running.
C8_SourceEndIsTerminal ==
    /\ SourceEnded ~> (pc = "exited" /\ ShutDown)
    /\ [](SourceEnded =>
            /\ ENABLED ReadEOF
            /\ ~ ENABLED (ReadHeader \/ ReadBlank \/ ReadError
                          \/ \E fields \in Rows, outcome \in SinkOutcomes :
                                ReadRow(fields, outcome)))
    /\ [][ (SourceEnded /\ ReadEOF) => (ShutDown' /\ failure' = "" /\ cleanups' = 2) ]_vars
    /\ [][ ReadError => (ShutDown' /\ cleanups' = 2) ]_vars
    /\ [][ pc = "exited" =>
             /\ sink' = sink
             /\ packet_buffer' = packet_buffer
             /\ packet_count' = packet_count ]_vars
    /\ [][ (ReadEOF /\ tshark_process = "running") =>
             (pc' = "loop" /\ csv_file' = "open" /\ tshark_process' = "running") ]_vars

\* C8: the loop ended on the end of the file, after rows were read.
C8_Witness ==
    /\ pc = "exited"
    /\ failure = ""
    /\ ~ interrupted
    /\ packet_count > 0
    /\ signals = {}

\* C9: the packet loss computed for a non-empty snapshot is 100 * (packets
\* with the retransmission flag) / (packets of the snapshot, stand-ins
\* included): 0 when no packet is flagged, 100 when all are, 20 when 2 of 10
\* are; and a record that is returned holds that value rounded to 2 places.
C9_PacketLoss ==
    LET n == Len(snapshot)
        flagged ==
            Cardinality({ i \in 1..n :
                            snapshot[i]["tcp.analysis.retransmission"] = TRUE })
        loss == PacketLoss(snapshot)
    IN  /\ n > 0 =>
              /\ loss[2] > 0
              /\ loss[1] * n = flagged * 100 * loss[2]
              /\ flagged = 0 => loss = <<0, 1>>
              /\ flagged = n => loss = <<100, 1>>
              /\ (n = 10 /\ flagged = 2) => loss = <<20, 1>>
        /\ result.kind = "record" =>
              /\ result.dict.packet_loss = RRound2(Rat(flagged * 100, n))
              /\ flagged = 0 => result.dict.packet_loss = <<0, 1>>
              /\ flagged = n => result.dict.packet_loss = <<100, 1>>
              /\ (n = 10 /\ flagged = 2) => result.dict.packet_loss = <<20, 1>>

\* C9: the record of a snapshot of 3 packets, one of them a stand-in and one
\* a retransmission.
C9_Witness ==
    /\ result.kind = "record"
    /\ Len(snapshot) = 3
    /\ \E i \in 1..3 : snapshot[i]["_ws.col.protocol"] = "Unknown"
    /\ \E i \in 1..3 : snapshot[i]["tcp.analysis.retransmission"]
    /\ result.dict.packet_loss = <<3333, 100>>

\* C10: every row of the sink has a packet_count of min(data rows read when
\* it was written, MAXLEN), at least 1, equal to the sum of its
\* protocol_counts; and as long as no further row is read, the buffer is the
\* snapshot the last row of the sink was computed from and the counter is
\* the one it was written at.
C10_RecordFromSnapshot ==
    /\ Len(ticks) = Len(sink)
    /\ \A i \in 1..Len(sink) :
          /\ sink[i].packet_count = Min(ticks[i].packet_count, MAXLEN)
          /\ sink[i].packet_count >= 1
          /\ SumOver(sink[i].protocol_counts, DOMAIN sink[i].protocol_counts)
                = sink[i].packet_count
    /\ (sink # <<>> /\ Last(ticks).packet_count = packet_count) =>
          /\ Len(packet_buffer) = Last(sink).packet_count
          /\ \A proto \in DOMAIN Last(sink).protocol_counts :
                Last(sink).protocol_counts[proto] =
                   Cardinality({ i \in 1..Len(packet_buffer) :
                                   packet_buffer[i]["_ws.col.protocol"] = proto })

\* C10: a row of the sink written at the third data row, from a full buffer
\* of two protocols.
C10_Witness ==
    /\ sink # <<>>
    /\ Last(ticks).packet_count > MAXLEN
    /\ Last(sink).packet_count = MAXLEN
    /\ Cardinality(DOMAIN Last(sink).protocol_counts) >= 2

\* the label the resolution order gives
C7_Expected(src, dst, proto) ==
    IF \E pr \in PortPairs : pr[1] = src
    THEN (CHOOSE pr \in PortPairs : pr[1] = src)[2]
    ELSE IF \E pr \in PortPairs : pr[1] = dst
    THEN (CHOOSE pr \in PortPairs : pr[1] = dst)[2]
    ELSE IF 1024 < dst /\ dst < 49151
    THEN "App-Port-" \o ToString(dst)
    ELSE IF proto # "" /\ proto # "Unknown"
    THEN proto
    ELSE "Unknown"

\* C7: the label of a packet is the first match of: source port in the
\* table, destination port in the table, destination port strictly between
\* 1024 and 49151 ("App-Port-<port>"), the protocol if it is neither empty
\* nor "Unknown", "Unknown".  Source 443 with destination 51000 is "HTTPS";
\* destinations 1024 and 49151 give no "App-Port-" label.
C7_LabelByFirstMatch ==
    app_name # "" =>
        /\ app_name = C7_Expected(probe["tcp.srcport"], probe["tcp.dstport"],
                                  probe["_ws.col.protocol"])
        /\ (probe["tcp.srcport"] = 443 /\ probe["tcp.dstport"] = 51000)
              => app_name = "HTTPS"
        /\ app_name \notin { "App-Port-1024", "App-Port-49151" }
        /\ (probe["tcp.srcport"] = 0 /\ probe["tcp.dstport"] = 49150)
              => app_name = "App-Port-49150"

\* C7: source port 443, destination port 51000, labelled "HTTPS".
C7_Witness ==
    /\ probe["tcp.srcport"] = 443
    /\ probe["tcp.dstport"] = 51000
    /\ app_name = "HTTPS"

=============================================================================
